---- MODULE Spec2Model ----
(***************************************************************************)
(* A model of script.py: the daily run of the posting bot (run_bot) with   *)
(* its three external calls (trending keywords, text generation, publish). *)
(* Strings whose characters matter (generated text, keywords) are          *)
(* sequences of one-character strings; Python values are tagged records    *)
(* [t, v] so that None, str, int, list and dict can be told apart the way  *)
(* the interpreter tells them apart.                                       *)
(***************************************************************************)
EXTENDS Integers, Sequences, FiniteSets, TLC

VARIABLES pc, num_tweets, i,
          selected_topic, should_be_funny, should_include_link,
          selected_language, trending_keyword, tweet_content,
          trend_event, prompt, response, raised,
          outcome, post_result, delay,
          trendCalls, genCalls, pubCalls, waits,
          env, submitted

vars == <<pc, num_tweets, i, selected_topic, should_be_funny,
          should_include_link, selected_language, trending_keyword,
          tweet_content, trend_event, prompt, response, raised,
          outcome, post_result, delay, trendCalls, genCalls, pubCalls, waits,
          env, submitted>>

locals == <<selected_topic, should_be_funny, should_include_link,
            selected_language, trending_keyword, tweet_content>>

counters == <<trendCalls, genCalls, pubCalls, waits>>

----------------------------------------------------------------------------
(* Bounds of the model *)

\* longest first-candidate text the generation service answers with
MaxTextLen == 2

\* longest list of trending queries the trends source answers with
MaxTrends == 2

\* number of equal steps the delay interval is sampled at
DelayGrid == 3

----------------------------------------------------------------------------
(* Program constants *)

MaxTweets == 7

MinDelay == 3600

MaxDelay == 14400

TOPICS == <<"tech", "fullstack development", "AI",
            "the Moldovan tech market", "startups", "launching products">>

LANGUAGES == <<"en", "ro">>

BLOG_URL == "https://vladlazar.blog"

Credentials == {"X_BEARER_TOKEN", "X_API_KEY", "X_API_SECRET",
                "X_ACCESS_TOKEN", "X_ACCESS_SECRET", "GEMINI_API_KEY"}

\* what os.getenv gives for a name: None when unset, else the value, which
\* may be the empty string
EnvValues == {"unset", "empty", "set"}

\* the truth value of an os.getenv result, as all() at line 318 takes it
EnvTruthy(value) == value = "set"

----------------------------------------------------------------------------
(* Python values *)

None == [t |-> "none", v |-> <<>>]

PyStr(s) == [t |-> "str", v |-> s]

PyNum(n) == [t |-> "num", v |-> n]

PyList(l) == [t |-> "list", v |-> l]

PyDict(d) == [t |-> "dict", v |-> d]

EmptyDict == PyDict([k \in {} |-> None])

\* an exception in flight, named by its class
Exc(name) == [t |-> "exc", v |-> name]

IsExc(x) == x.t = "exc"

IsNone(x) == x.t = "none"

\* bool(x), as the `if x:` tests of the script evaluate it
Truthy(x) ==
    CASE x.t = "none" -> FALSE
      [] x.t = "str"  -> Len(x.v) > 0
      [] x.t = "num"  -> x.v # 0
      [] x.t = "list" -> Len(x.v) > 0
      [] x.t = "dict" -> DOMAIN x.v # {}
      [] OTHER        -> FALSE

\* obj.get(key, default): only dict has the method
DictGet(obj, key, default) ==
    IF IsExc(obj) THEN obj
    ELSE IF obj.t = "dict"
         THEN IF key \in DOMAIN obj.v THEN obj.v[key] ELSE default
         ELSE Exc("AttributeError")

\* obj[0]
Index0(obj) ==
    IF IsExc(obj) THEN obj
    ELSE CASE obj.t = "list" -> IF Len(obj.v) = 0 THEN Exc("IndexError") ELSE obj.v[1]
           [] obj.t = "str"  -> IF Len(obj.v) = 0 THEN Exc("IndexError") ELSE PyStr(<<obj.v[1]>>)
           [] obj.t = "dict" -> Exc("KeyError")
           [] OTHER          -> Exc("TypeError")

Whitespace == {" "}

TextChars == {" ", "a"}

RECURSIVE lstrip(_)
lstrip(s) == IF Len(s) = 0 THEN s
             ELSE IF Head(s) \in Whitespace THEN lstrip(Tail(s)) ELSE s

RECURSIVE rstrip(_)
rstrip(s) == IF Len(s) = 0 THEN s
             ELSE IF s[Len(s)] \in Whitespace THEN rstrip(SubSeq(s, 1, Len(s) - 1)) ELSE s

\* x.strip(): only str has the method
Strip(x) == IF x.t = "str" THEN PyStr(rstrip(lstrip(x.v))) ELSE Exc("AttributeError")

\* random.choice(seq)
choice(seq) == {seq[k] : k \in DOMAIN seq}

----------------------------------------------------------------------------
(* The trending-keyword source *)

\* the k-th trending query: k characters long, so all are distinct
Keyword(k) == PyStr([j \in 1..k |-> "k"])

\* what pytrends can do: raise, or hand back a frame of 0..MaxTrends rows
TrendSources ==
    {[kind |-> "error", rows |-> <<>>]} \cup
    {[kind |-> "frame", rows |-> [k \in 1..n |-> Keyword(k)]] : n \in 0..MaxTrends}

\* the trends call without its try/except
get_trending_topics_unguarded(src) ==
    IF src.kind = "error" THEN Exc("Exception")
    ELSE IF Len(src.rows) > 0 THEN PyList(src.rows)
    ELSE None

get_trending_topics_with_pytrends(src) ==
    IF src.kind = "error" THEN None
    ELSE IF Len(src.rows) > 0 THEN PyList(src.rows)
    ELSE None

\* lines 289-290 without the reset of line 288: the last keyword is kept
KeywordChoices_Stale(trending_keywords) ==
    IF Truthy(trending_keywords) THEN choice(trending_keywords.v)
    ELSE {trending_keyword}

\* the keyword choices run_bot has for a returned value (lines 288-290)
KeywordChoices(trending_keywords) ==
    IF Truthy(trending_keywords) THEN choice(trending_keywords.v) ELSE {None}

----------------------------------------------------------------------------
(* The prompt: the sequence of its clauses, in the order they are          *)
(* concatenated                                                            *)

Clause(c, lang, arg) == [c |-> c, lang |-> lang, arg |-> arg]

\* the tone clause concatenated before the keyword clause
ComposePrompt_ToneFirst(topic, is_funny, keyword, include_link, language) ==
    <<Clause("intro", language, topic), Clause("guidelines", language, "")>>
        \o (IF is_funny THEN <<Clause("tone", language, "")>> ELSE <<>>)
        \o (IF Truthy(keyword) THEN <<Clause("keyword", language, keyword.v)>> ELSE <<>>)
        \o (IF include_link THEN <<Clause("link", language, BLOG_URL)>> ELSE <<>>)

\* the Romanian template losing its link clause
ComposePrompt_RoNoLink(topic, is_funny, keyword, include_link, language) ==
    <<Clause("intro", language, topic), Clause("guidelines", language, "")>>
        \o (IF Truthy(keyword) THEN <<Clause("keyword", language, keyword.v)>> ELSE <<>>)
        \o (IF is_funny THEN <<Clause("tone", language, "")>> ELSE <<>>)
        \o (IF include_link /\ language # "ro"
            THEN <<Clause("link", language, BLOG_URL)>> ELSE <<>>)

\* the Romanian template taken for every language but "en"
ComposePrompt_DefaultRo(topic, is_funny, keyword, include_link, language) ==
    LET lang == IF language = "en" THEN "en" ELSE "ro"
    IN  <<Clause("intro", lang, topic), Clause("guidelines", lang, "")>>
            \o (IF Truthy(keyword) THEN <<Clause("keyword", lang, keyword.v)>> ELSE <<>>)
            \o (IF is_funny THEN <<Clause("tone", lang, "")>> ELSE <<>>)
            \o (IF include_link THEN <<Clause("link", lang, BLOG_URL)>> ELSE <<>>)

ComposePrompt(topic, is_funny, keyword, include_link, language) ==
    IF language = "ro"
    THEN LET prompt_intro == <<Clause("intro", "ro", topic)>>
             tweet_guidelines == <<Clause("guidelines", "ro", "")>>
             prompt_trending == IF Truthy(keyword)
                                THEN <<Clause("keyword", "ro", keyword.v)>> ELSE <<>>
             prompt_humor == IF is_funny THEN <<Clause("tone", "ro", "")>> ELSE <<>>
             prompt_link == IF include_link
                            THEN <<Clause("link", "ro", BLOG_URL)>> ELSE <<>>
         IN  prompt_intro \o tweet_guidelines \o prompt_trending
                 \o prompt_humor \o prompt_link
    ELSE LET p0 == <<Clause("intro", "en", topic), Clause("guidelines", "en", "")>>
             p1 == IF Truthy(keyword)
                   THEN p0 \o <<Clause("keyword", "en", keyword.v)>> ELSE p0
             p2 == IF is_funny THEN p1 \o <<Clause("tone", "en", "")>> ELSE p1
             p3 == IF include_link
                   THEN p2 \o <<Clause("link", "en", BLOG_URL)>> ELSE p2
         IN  p3

----------------------------------------------------------------------------
(* The text-generation service *)

Texts == UNION {[1..n -> TextChars] : n \in 0..MaxTextLen}

Http(net, status, isJson, data) ==
    [net |-> net, status |-> status, isJson |-> isJson, data |-> data]

NoResponse == Http("none", 0, FALSE, None)

\* a body of the documented shape around a first-candidate part
Body(part) ==
    PyDict([candidates |-> PyList(<<PyDict([content |->
        PyDict([parts |-> PyList(<<part>>)])])>>)])

TextBody(text) == Body(PyDict([text |-> text]))

\* requests.post raised: no connection, or no answer within the timeout
TransportFailures ==
    {Http("connection_error", 0, FALSE, None), Http("timeout", 0, FALSE, None)}

\* an answer with a 4xx or 5xx status
ErrorStatusResponses ==
    {Http("ok", 404, FALSE, None), Http("ok", 500, TRUE, EmptyDict)}

\* an answer with a status that is neither 2xx nor 4xx/5xx
OtherStatusResponses ==
    {Http("ok", 300, TRUE, TextBody(PyStr(<<"a">>)))}

\* 2xx answers whose body is not of the documented shape
MalformedBodies ==
    << Http("ok", 200, FALSE, None),
       Http("ok", 200, TRUE, PyList(<<>>)),
       Http("ok", 200, TRUE, EmptyDict),
       Http("ok", 200, TRUE, PyDict([candidates |-> None])),
       Http("ok", 200, TRUE, PyDict([candidates |-> PyList(<<>>)])),
       Http("ok", 200, TRUE, PyDict([candidates |-> EmptyDict])),
       Http("ok", 200, TRUE, PyDict([candidates |-> PyList(<<None>>)])),
       Http("ok", 200, TRUE, PyDict([candidates |-> PyList(<<EmptyDict>>)])),
       Http("ok", 200, TRUE, PyDict([candidates |-> PyList(<<PyDict([content |-> None])>>)])),
       Http("ok", 200, TRUE, PyDict([candidates |-> PyList(<<PyDict([content |-> EmptyDict])>>)])),
       Http("ok", 200, TRUE, PyDict([candidates |-> PyList(<<PyDict([content |->
                                        PyDict([parts |-> None])])>>)])),
       Http("ok", 200, TRUE, PyDict([candidates |-> PyList(<<PyDict([content |->
                                        PyDict([parts |-> PyList(<<>>)])])>>)])),
       Http("ok", 200, TRUE, PyDict([candidates |-> PyList(<<PyDict([content |->
                                        PyDict([parts |-> EmptyDict])])>>)])),
       Http("ok", 200, TRUE, Body(None)),
       Http("ok", 200, TRUE, TextBody(PyNum(5))) >>

\* 2xx answers of the documented shape; the text may be missing or null
WellFormedResponses ==
    {Http("ok", 200, TRUE, Body(EmptyDict)),
     Http("ok", 200, TRUE, TextBody(None))} \cup
    {Http("ok", 200, TRUE, TextBody(PyStr(s))) : s \in Texts}

Responses ==
    TransportFailures \cup ErrorStatusResponses \cup OtherStatusResponses
        \cup choice(MalformedBodies) \cup WellFormedResponses

\* raise_for_status taken to raise on server errors only
raise_for_status_5xx(resp) == resp.status >= 500 /\ resp.status < 600

\* response.raise_for_status() raises HTTPError
raise_for_status(resp) == resp.status >= 400 /\ resp.status < 600

\* data.get("candidates", [{}])[0].get("content", {}).get("parts", [{}])[0].get("text")
FirstCandidateText(data) ==
    DictGet(Index0(DictGet(DictGet(Index0(DictGet(data, "candidates",
                PyList(<<EmptyDict>>))), "content", EmptyDict),
                "parts", PyList(<<EmptyDict>>))), "text", None)

\* the exception classes the two except clauses of the function catch
CaughtByGenerate == {"RequestException", "KeyError", "IndexError"}

\* lines 192-218: what the function returns, or the exception that leaves it.
\* legacyJson: response.json() raises a plain ValueError on a body that is
\* not JSON (requests before 2.27) instead of a RequestException subclass.
GenerateResult(resp, legacyJson) ==
    LET tried ==
          IF resp.net # "ok" THEN Exc("RequestException")
          ELSE IF raise_for_status(resp) THEN Exc("RequestException")
          ELSE IF ~resp.isJson
               THEN IF legacyJson THEN Exc("ValueError") ELSE Exc("RequestException")
          ELSE LET tweet_text == FirstCandidateText(resp.data)
               IN  IF IsExc(tweet_text) THEN tweet_text
                   ELSE IF Truthy(tweet_text) THEN Strip(tweet_text)
                   ELSE None
    IN  IF IsExc(tried) /\ tried.v \in CaughtByGenerate THEN None ELSE tried

----------------------------------------------------------------------------
(* The publishing service *)

\* what client.create_tweet and the lines after it can do
PublishEvents == {"created", "tweepy_error", "transport_error", "bad_response"}

\* post_tweet without its last except clause: only TweepyException is caught
post_tweet_tweepy_only(ev) ==
    IF ev = "created" THEN "True"
    ELSE IF ev = "tweepy_error" THEN "False" ELSE "raise"

\* lines 232-254: True, False, or "raise" when an exception leaves the function
post_tweet(ev) == IF ev = "created" THEN "True" ELSE "False"

\* line 302 written as `if tweet_content is not None:`
ShouldPublish_NotNone(content) == ~IsNone(content)

\* line 243, the text handed to client.create_tweet, cut to one character
create_tweet_text_cut(tweet_text) ==
    PyStr(SubSeq(tweet_text.v, 1, 1))

\* line 243: the text handed to client.create_tweet
create_tweet_text(tweet_text) == tweet_text

\* line 302
ShouldPublish(content) == Truthy(content)

----------------------------------------------------------------------------
(* Random draws *)

\* an upper limit one too high
PlannedCounts_OffByOne == 0..(MaxTweets + 1)

\* random.randint(0, 7)
PlannedCounts == 0..MaxTweets

\* random.randint(3600, 14400), sampled at DelayGrid equal steps, both ends
\* included
DelayChoices ==
    {MinDelay + (k * (MaxDelay - MinDelay)) \div DelayGrid : k \in 0..DelayGrid}


----------------------------------------------------------------------------
(* run_bot *)

\* the locals of run_bot before their first assignment, and after it returned
Unbound ==
    /\ selected_topic' = ""
    /\ should_be_funny' = FALSE
    /\ should_include_link' = FALSE
    /\ selected_language' = ""
    /\ trending_keyword' = None
    /\ tweet_content' = None

Init ==
    /\ pc = "start"
    /\ num_tweets = 0
    /\ i = 0
    /\ selected_topic = ""
    /\ should_be_funny = FALSE
    /\ should_include_link = FALSE
    /\ selected_language = ""
    /\ trending_keyword = None
    /\ tweet_content = None
    /\ trend_event = "none"
    /\ prompt = <<>>
    /\ response = NoResponse
    /\ raised = "none"
    /\ outcome = "none"
    /\ post_result = "none"
    /\ delay = 0
    /\ trendCalls = 0
    /\ genCalls = 0
    /\ pubCalls = 0
    /\ waits = 0
    /\ env = [c \in Credentials |-> "set"]
    /\ submitted = None

\* an exception nobody catches leaves run_bot: the process ends with a traceback
Crash(name) ==
    /\ pc' = "Crashed"
    /\ raised' = name
    /\ Unbound

\* lines 266-273: draw the day's count; return at once when it is 0
PlanDay ==
    /\ pc = "start"
    /\ UNCHANGED <<env, submitted>>
    /\ \E n \in PlannedCounts :
         /\ num_tweets' = n
         /\ pc' = IF n = 0 THEN "Done" ELSE "plan"
    /\ i' = 0
    /\ UNCHANGED <<locals, trend_event, prompt, response, raised, outcome,
                   post_result, delay, counters>>

\* lines 275-284: the four draws of one post
PlanPost ==
    /\ pc = "plan"
    /\ UNCHANGED <<env, submitted>>
    /\ selected_topic' \in choice(TOPICS)
    /\ should_be_funny' \in BOOLEAN
    /\ should_include_link' \in BOOLEAN
    /\ selected_language' \in choice(LANGUAGES)
    /\ pc' = "enrich"
    /\ UNCHANGED <<num_tweets, i, trending_keyword, tweet_content, trend_event,
                   prompt, response, raised, outcome, post_result, delay,
                   counters>>

\* lines 287-290: one call of the trends source, then the keyword draw
Enrich ==
    /\ pc = "enrich"
    /\ UNCHANGED <<env, submitted>>
    /\ trendCalls' = trendCalls + 1
    /\ \E src \in TrendSources :
         LET trending_keywords == get_trending_topics_with_pytrends(src)
         IN  /\ trend_event' = IF src.kind = "error" THEN "failed"
                               ELSE IF Len(src.rows) = 0 THEN "empty" ELSE "listed"
             /\ IF IsExc(trending_keywords)
                THEN Crash(trending_keywords.v)
                ELSE /\ trending_keyword' \in KeywordChoices(trending_keywords)
                     /\ pc' = "generate"
                     /\ UNCHANGED <<selected_topic, should_be_funny,
                                    should_include_link, selected_language,
                                    tweet_content, raised>>
    /\ UNCHANGED <<num_tweets, i, prompt, response, outcome, post_result, delay,
                   genCalls, pubCalls, waits>>

\* lines 293-299: one call of generate_tweet_with_gemini; prompt and response
\* are what that call built and received
Generate ==
    /\ pc = "generate"
    /\ UNCHANGED <<env, submitted>>
    /\ genCalls' = genCalls + 1
    /\ prompt' = ComposePrompt(selected_topic, should_be_funny, trending_keyword,
                               should_include_link, selected_language)
    /\ trend_event' = "none"
    /\ \E resp \in Responses, legacyJson \in BOOLEAN :
         LET result == GenerateResult(resp, legacyJson)
         IN  /\ response' = resp
             /\ IF IsExc(result)
                THEN Crash(result.v)
                ELSE /\ tweet_content' = result
                     /\ pc' = "decide"
                     /\ UNCHANGED <<selected_topic, should_be_funny,
                                    should_include_link, selected_language,
                                    trending_keyword, raised>>
    /\ UNCHANGED <<num_tweets, i, outcome, post_result, delay,
                   trendCalls, pubCalls, waits>>

\* lines 302-303 with a second post_tweet call after a failed one
Publish_WithRetry ==
    /\ pc = "decide"
    /\ ShouldPublish(tweet_content)
    /\ submitted' = create_tweet_text(tweet_content)
    /\ prompt' = <<>>
    /\ response' = NoResponse
    /\ \E ev \in PublishEvents :
         /\ outcome' = ev
         /\ post_result' = post_tweet(ev)
         /\ pubCalls' = IF post_tweet(ev) = "True" THEN pubCalls + 1 ELSE pubCalls + 2
    /\ pc' = "iter_end"
    /\ UNCHANGED <<num_tweets, i, locals, raised, trend_event, delay,
                   trendCalls, genCalls, waits, env>>

\* lines 302-303: the generated text is published, one call of post_tweet
Publish ==
    /\ pc = "decide"
    /\ ShouldPublish(tweet_content)
    /\ pubCalls' = pubCalls + 1
    /\ submitted' = create_tweet_text(tweet_content)
    /\ UNCHANGED env
    /\ prompt' = <<>>
    /\ response' = NoResponse
    /\ \E ev \in PublishEvents :
         /\ outcome' = ev
         /\ IF post_tweet(ev) = "raise"
            THEN /\ Crash("Exception")
                 /\ post_result' = "none"
            ELSE /\ post_result' = post_tweet(ev)
                 /\ pc' = "iter_end"
                 /\ UNCHANGED <<locals, raised>>
    /\ UNCHANGED <<num_tweets, i, trend_event, delay, trendCalls, genCalls, waits>>

\* lines 304-305: nothing to publish
Skip ==
    /\ pc = "decide"
    /\ ~ShouldPublish(tweet_content)
    /\ UNCHANGED <<env, submitted>>
    /\ outcome' = "skipped"
    /\ prompt' = <<>>
    /\ response' = NoResponse
    /\ pc' = "iter_end"
    /\ UNCHANGED <<num_tweets, i, locals, trend_event, raised, post_result,
                   delay, counters>>

\* lines 309-313 without the sleep: the loop takes the next i at once
StartWait_NoSleep ==
    /\ pc = "iter_end"
    /\ i < num_tweets - 1
    /\ i' = i + 1
    /\ submitted' = None
    /\ outcome' = "none"
    /\ post_result' = "none"
    /\ pc' = "plan"
    /\ UNCHANGED <<num_tweets, locals, trend_event, prompt, response, raised,
                   delay, counters, env>>

\* lines 309-313: a delay is drawn and the sleep starts, unless this was the
\* last iteration
StartWait ==
    /\ pc = "iter_end"
    /\ i < num_tweets - 1
    /\ delay' \in DelayChoices
    /\ submitted' = None
    /\ UNCHANGED env
    /\ waits' = waits + 1
    /\ outcome' = "none"
    /\ post_result' = "none"
    /\ pc' = "sleeping"
    /\ UNCHANGED <<num_tweets, i, locals, trend_event, prompt, response, raised,
                   trendCalls, genCalls, pubCalls>>

\* line 309 false on the last iteration: the loop and run_bot end
Finish ==
    /\ pc = "iter_end"
    /\ ~(i < num_tweets - 1)
    /\ submitted' = None
    /\ UNCHANGED env
    /\ outcome' = "none"
    /\ post_result' = "none"
    /\ pc' = "Done"
    /\ Unbound
    /\ UNCHANGED <<num_tweets, i, trend_event, prompt, response, raised, delay,
                   counters>>

\* line 314 returns, line 273 takes the next i
WakeUp ==
    /\ pc = "sleeping"
    /\ UNCHANGED <<env, submitted>>
    /\ delay' = 0
    /\ i' = i + 1
    /\ pc' = "plan"
    /\ UNCHANGED <<num_tweets, locals, trend_event, prompt, response, raised,
                   outcome, post_result, counters>>

Next ==
    \/ PlanDay
    \/ PlanPost
    \/ Enrich
    \/ Generate
    \/ Publish
    \/ Skip
    \/ StartWait
    \/ Finish
    \/ WakeUp

\* run_bot, entered with every credential set
Spec == Init /\ [][Next]_vars

----------------------------------------------------------------------------
(* The process, from its entry point *)

\* line 318 with any() in place of all()
CredentialsComplete_Any(e) == \E c \in Credentials : EnvTruthy(e[c])

\* line 318: all([...]) over the six credentials
CredentialsComplete(e) == \A c \in Credentials : EnvTruthy(e[c])

\* the process at line 316, with whatever the environment holds
InitMain ==
    /\ pc = "main"
    /\ env \in [Credentials -> EnvValues]
    /\ num_tweets = 0
    /\ i = 0
    /\ selected_topic = ""
    /\ should_be_funny = FALSE
    /\ should_include_link = FALSE
    /\ selected_language = ""
    /\ trending_keyword = None
    /\ tweet_content = None
    /\ trend_event = "none"
    /\ prompt = <<>>
    /\ response = NoResponse
    /\ raised = "none"
    /\ outcome = "none"
    /\ post_result = "none"
    /\ delay = 0
    /\ trendCalls = 0
    /\ genCalls = 0
    /\ pubCalls = 0
    /\ waits = 0
    /\ submitted = None

\* lines 316-322: the credentials check; run_bot is called only when it passes
Main ==
    /\ pc = "main"
    /\ pc' = IF CredentialsComplete(env) THEN "start" ELSE "Exit"
    /\ UNCHANGED <<num_tweets, i, locals, trend_event, prompt, response, raised,
                   outcome, post_result, delay, counters, env, submitted>>

NextMain ==
    \/ Main
    \/ Next

SpecMain == InitMain /\ [][NextMain]_vars

TypeOK ==
    /\ pc \in {"start", "plan", "enrich", "generate", "decide", "iter_end",
               "sleeping", "Done", "Crashed", "main", "Exit", "call", "composed"}
    /\ num_tweets \in 0..(MaxTweets + 1)
    /\ i \in 0..MaxTweets

----------------------------------------------------------------------------
(* The prompt of generate_tweet_with_gemini, for any caller *)

\* language arguments: the two supported codes and others
LanguageInputs == {"en", "ro", "fr", "RO", ""}

\* trending_keyword arguments: None (the default), "" and keywords
KeywordInputs == {None, PyStr(<<>>)} \cup {Keyword(k) : k \in 1..MaxTrends}

\* a call of generate_tweet_with_gemini with arguments of the declared types
InitCompose ==
    /\ pc = "call"
    /\ selected_topic \in choice(TOPICS)
    /\ should_be_funny \in BOOLEAN
    /\ should_include_link \in BOOLEAN
    /\ selected_language \in LanguageInputs
    /\ trending_keyword \in KeywordInputs
    /\ num_tweets = 0
    /\ i = 0
    /\ tweet_content = None
    /\ trend_event = "none"
    /\ prompt = <<>>
    /\ response = NoResponse
    /\ raised = "none"
    /\ outcome = "none"
    /\ post_result = "none"
    /\ delay = 0
    /\ trendCalls = 0
    /\ genCalls = 0
    /\ pubCalls = 0
    /\ waits = 0
    /\ env = [c \in Credentials |-> "set"]
    /\ submitted = None

\* lines 133-183: the prompt is built from the arguments
ComposeCall ==
    /\ pc = "call"
    /\ prompt' = ComposePrompt(selected_topic, should_be_funny, trending_keyword,
                               should_include_link, selected_language)
    /\ pc' = "composed"
    /\ UNCHANGED <<num_tweets, i, locals, trend_event, response, raised,
                   outcome, post_result, delay, counters, env, submitted>>

SpecCompose == InitCompose /\ [][ComposeCall]_vars

----------------------------------------------------------------------------
(* Properties *)

Is2xx(resp) == resp.net = "ok" /\ resp.status >= 200 /\ resp.status < 300

\* a valid generated post: a string with a character that is not whitespace
IsGeneratedPost(x) == x.t = "str" /\ \E k \in DOMAIN x.v : x.v[k] \notin Whitespace

\* a skipped or failed iteration is followed by the wait and the next
\* iteration, or by Done when it was the last
LoopGoesOn ==
    /\ pc = "decide" /\ ~IsGeneratedPost(tweet_content)
         => pc' = "iter_end" /\ outcome' = "skipped" /\ raised' = "none"
    /\ pc = "iter_end"
         => /\ raised' = "none"
            /\ i < num_tweets - 1 => pc' = "sleeping"
            /\ i = num_tweets - 1 => pc' = "Done"
    /\ pc = "sleeping" => pc' = "plan" /\ i' = i + 1 /\ i' < num_tweets
    /\ pc = "plan" => pc' = "enrich" /\ i' = i

\* the generation call of this step returned None to run_bot
ReturnedNone == pc' = "decide" /\ raised' = "none" /\ IsNone(tweet_content')

\* C1, as stated: transport failure, timeout or any non-2xx status make
\* generate_tweet_with_gemini return None, and the loop goes on
C1_AnyNon2xx ==
    [][ /\ pc = "generate" /\ ~Is2xx(response') => ReturnedNone
        /\ LoopGoesOn ]_vars

\* C1, amended: transport failure, timeout or a 4xx/5xx status make
\* generate_tweet_with_gemini return None without raising, and the loop goes
\* on to iteration i+1, or to Done after the last
C1_FailureReturnsNone ==
    [][ /\ pc = "generate"
           /\ (response'.net # "ok" \/ (response'.status >= 400 /\ response'.status < 600))
           => ReturnedNone
        /\ LoopGoesOn ]_vars

C1_Witness ==
    /\ pc = "decide" /\ num_tweets = MaxTweets /\ i = 3
    /\ response.net = "ok" /\ response.status = 500
    /\ IsNone(tweet_content)

\* C2: a 2xx answer with a malformed body makes generate_tweet_with_gemini
\* return None, and no exception reaches run_bot
C2_MalformedReturnsNone ==
    [][ pc = "generate" /\ response' \in choice(MalformedBodies)
          => ReturnedNone ]_vars

\* C3: a failed publish returns False without raising; when the iteration is
\* not the last a delay in [3600,14400] is drawn and the next iteration starts
C3_PublishFailureIsolated ==
    [][ /\ pc = "decide" /\ ShouldPublish(tweet_content)
           => /\ pc' = "iter_end" /\ raised' = "none"
              /\ outcome' # "created" => post_result' = "False"
        /\ pc = "iter_end" /\ post_result = "False" /\ i < num_tweets - 1
           => pc' = "sleeping" /\ delay' \in MinDelay..MaxDelay
        /\ pc = "iter_end" /\ post_result = "False" /\ i = num_tweets - 1
           => pc' = "Done"
        /\ pc = "sleeping"
           => pc' = "plan" /\ i' = i + 1 /\ i' < num_tweets /\ raised' = "none"
        /\ pc = "plan" => pc' = "enrich" ]_vars

C3_Witness ==
    /\ pc = "iter_end" /\ post_result = "False" /\ outcome = "transport_error"
    /\ i = 1 /\ num_tweets = 3

\* C4: post_tweet is called in an iteration exactly when the generation call
\* returned a generated post; after an iteration without one, the next
\* iteration runs its own generation call
C4_PublishIffGenerated ==
    [][ /\ pc = "decide"
           => /\ pubCalls' = pubCalls + 1 <=> IsGeneratedPost(tweet_content)
              /\ pubCalls' = pubCalls <=> ~IsGeneratedPost(tweet_content)
        /\ pc # "decide" => pubCalls' = pubCalls
        /\ pc = "iter_end" /\ outcome = "skipped" /\ i < num_tweets - 1
           => pc' = "sleeping" /\ pubCalls' = pubCalls
        /\ pc = "sleeping" => pc' = "plan" /\ i' = i + 1
        /\ pc = "plan" => pc' = "enrich"
        /\ pc = "enrich" => pc' = "generate" /\ trendCalls' = trendCalls + 1
        /\ pc = "generate" => genCalls' = genCalls + 1 ]_vars

C4_Witness ==
    /\ pc = "iter_end" /\ i = 1 /\ num_tweets = 2
    /\ pubCalls = 1 /\ genCalls = 2 /\ outcome = "created"

\* C5: the planned count is in 0..7, and a count of 0 ends the run at once,
\* with no external call and no wait
C5_CountInRange ==
    /\ num_tweets \in 0..7
    /\ pc # "start" /\ num_tweets = 0
         => /\ pc = "Done"
            /\ trendCalls = 0 /\ genCalls = 0 /\ pubCalls = 0 /\ waits = 0

C5_Witness == pc = "Done" /\ num_tweets = 0 /\ trendCalls = 0

\* C6: a run with count N >= 1 has exactly N-1 waits when it is over, each
\* of a duration in [3600,14400], and N publish calls when every generation
\* call produced a post
C6_WaitsAreCountMinusOne ==
    /\ pc = "sleeping" => delay \in MinDelay..MaxDelay
    /\ pc \in {"Done", "Crashed"} /\ num_tweets >= 1
         => /\ waits = num_tweets - 1
            /\ pubCalls = genCalls => pubCalls = num_tweets

\* the kinds of the clauses of a prompt, in order
KindSeq(p) == [k \in DOMAIN p |-> p[k].c]

\* whether the inputs of the current iteration ask for a clause
Present(kind) ==
    CASE kind = "tone"    -> should_be_funny
      [] kind = "keyword" -> Truthy(trending_keyword)
      [] kind = "link"    -> should_include_link
      [] OTHER            -> TRUE

\* C7, as stated: the clauses of the prompt come in the order
\* base, tone, keyword, link
C7_ToneBeforeKeyword ==
    pc = "decide" =>
        KindSeq(prompt) =
            SelectSeq(<<"intro", "guidelines", "tone", "keyword", "link">>, Present)

\* C7, amended: in both language templates the clauses of the prompt come in
\* the order base, keyword, tone, link, each present exactly when its input
\* asks for it
C7_KeywordBeforeTone ==
    pc = "decide" =>
        /\ KindSeq(prompt) =
               SelectSeq(<<"intro", "guidelines", "keyword", "tone", "link">>, Present)
        /\ \A k \in DOMAIN prompt : prompt[k].lang = selected_language
        /\ prompt[1].arg = selected_topic

C7_Witness ==
    /\ pc = "decide" /\ selected_language = "ro"
    /\ should_be_funny /\ should_include_link /\ Truthy(trending_keyword)
    /\ Len(prompt) = 5

\* C8: in both languages the prompt has the link clause, with the blog URL,
\* when a link is requested, and no link clause when none is requested
C8_LinkClauseIffRequested ==
    pc = "decide" =>
        LET links == {k \in DOMAIN prompt : prompt[k].c = "link"}
        IN  /\ should_include_link
                 => /\ Cardinality(links) = 1
                    /\ \A k \in links : prompt[k].arg = BLOG_URL
            /\ ~should_include_link => links = {}

C8_Witness ==
    /\ pc = "decide" /\ selected_language = "ro" /\ should_include_link
    /\ \E k \in DOMAIN prompt : prompt[k].c = "link" /\ prompt[k].lang = "ro"

\* the text is missing, empty or made of whitespace only
Blank(text) == ~IsGeneratedPost(text)

\* C9: on a well-formed 2xx answer generate_tweet_with_gemini returns None
\* when the first candidate's text is missing, empty or whitespace-only, and
\* the trimmed text otherwise
C9_BlankTextIsNone ==
    [][ pc = "generate" /\ response' \in WellFormedResponses
          => LET text == FirstCandidateText(response'.data)
             IN  /\ pc' = "decide"
                 /\ Blank(text) => IsNone(tweet_content')
                 /\ ~Blank(text) => /\ tweet_content'.t = "str"
                                    /\ tweet_content'.v = rstrip(lstrip(text.v)) ]_vars

\* C10: when the trends source raises or returns nothing the keyword is
\* None, nothing is raised into run_bot, and the same iteration calls
\* generation with a prompt that has no keyword clause
C10_EnrichmentBestEffort ==
    [][ /\ pc = "enrich"
           => /\ pc' = "generate" /\ raised' = "none" /\ i' = i
              /\ trend_event' \in {"failed", "empty"} => IsNone(trending_keyword')
        /\ pc = "generate" /\ trend_event \in {"failed", "empty"}
           => /\ genCalls' = genCalls + 1 /\ i' = i
              /\ Len(prompt') >= 2
              /\ \A k \in DOMAIN prompt' : prompt'[k].c # "keyword" ]_vars

C10_Witness ==
    /\ pc = "generate" /\ trend_event = "failed" /\ i = 1
    /\ IsNone(trending_keyword) /\ trendCalls = 2

\* C11: when one of the six credentials is absent the process ends without
\* entering run_bot: no draw, no trends, generation or publish call, no wait
C11_MissingCredentialStops ==
    (\E c \in Credentials : env[c] # "set")
        => /\ pc \in {"main", "Exit"}
           /\ trendCalls = 0 /\ genCalls = 0 /\ pubCalls = 0 /\ waits = 0
           /\ num_tweets = 0 /\ selected_topic = ""

C11_Witness ==
    /\ pc = "Exit"
    /\ env["GEMINI_API_KEY"] = "unset"
    /\ \A c \in Credentials \ {"GEMINI_API_KEY"} : env[c] = "set"

\* two prompts are the same text: the same clauses in the same order
SamePrompt(p, q) ==
    /\ Len(p) = Len(q)
    /\ \A k \in DOMAIN p :
         /\ p[k].c = q[k].c
         /\ p[k].lang = q[k].lang
         /\ p[k].arg = q[k].arg

\* C12: for a language outside {en, ro} the prompt is the one built for
\* English from the same topic, tone, keyword and link arguments
C12_UnsupportedLanguageIsEnglish ==
    pc = "composed" /\ selected_language \notin {"en", "ro"}
        => /\ Len(prompt) >= 2
           /\ SamePrompt(prompt,
                  ComposePrompt(selected_topic, should_be_funny, trending_keyword,
                                should_include_link, "en"))

C12_Witness ==
    /\ pc = "composed" /\ selected_language = "fr"
    /\ should_be_funny /\ should_include_link /\ Truthy(trending_keyword)
    /\ Len(prompt) = 5

\* C13: within an iteration there is at most one trends call, one generation
\* call and one publish call, with no second attempt after a failure; the
\* publish calls of a run never exceed the planned count, which is at most 7
C13_OneCallPerIteration ==
    [][ /\ trendCalls' # trendCalls
           => pc = "enrich" /\ pc' # "enrich" /\ trendCalls' = trendCalls + 1
        /\ genCalls' # genCalls
           => pc = "generate" /\ pc' # "generate" /\ genCalls' = genCalls + 1
        /\ pubCalls' # pubCalls
           => pc = "decide" /\ pc' # "decide" /\ pubCalls' = pubCalls + 1
        /\ pc' = "enrich" => pc = "plan" /\ i' = i
        /\ pc' = "generate" => pc = "enrich" /\ i' = i
        /\ pc' = "decide" => pc = "generate" /\ i' = i
        /\ pc' = "plan" => pc = "start" \/ (pc = "sleeping" /\ i' = i + 1)
        /\ trendCalls' <= i' + 1 /\ genCalls' <= i' + 1 /\ pubCalls' <= i' + 1
        /\ pubCalls' <= genCalls' /\ genCalls' <= trendCalls'
        /\ pubCalls' <= num_tweets' /\ num_tweets' <= 7 ]_vars

C13_Witness ==
    /\ pc = "Done" /\ num_tweets = MaxTweets
    /\ pubCalls = MaxTweets /\ genCalls = MaxTweets /\ trendCalls = MaxTweets

\* one of the four draws of lines 275-284 changes its variable
DrawsChange ==
    \/ selected_topic' # selected_topic
    \/ should_be_funny' # should_be_funny
    \/ should_include_link' # should_include_link
    \/ selected_language' # selected_language

\* C14: in an iteration the trends call comes before the generation call and
\* that before the publish call; the draws and calls of iteration i+1 start
\* only after iteration i's publish step is over or skipped and its wait
\* has elapsed
C14_StrictlySequential ==
    [][ /\ trendCalls' # trendCalls
           => trendCalls = i /\ genCalls = i /\ pubCalls <= i
              /\ genCalls' = genCalls /\ pubCalls' = pubCalls
        /\ genCalls' # genCalls
           => trendCalls = i + 1 /\ genCalls = i /\ pubCalls <= i
              /\ trendCalls' = trendCalls /\ pubCalls' = pubCalls
        /\ pubCalls' # pubCalls
           => trendCalls = i + 1 /\ genCalls = i + 1
              /\ trendCalls' = trendCalls /\ genCalls' = genCalls
        /\ DrawsChange /\ pc' \notin {"Done", "Crashed"}
           => pc = "plan" /\ trendCalls = i /\ genCalls = i /\ waits = i /\ delay = 0
        /\ i' # i
           => /\ pc = "sleeping" /\ delay \in MinDelay..MaxDelay /\ delay' = 0
              /\ waits = i + 1 /\ trendCalls = i + 1 /\ genCalls = i + 1
              /\ UNCHANGED <<locals, counters>>
        /\ pc' = "sleeping"
           => pc = "iter_end" /\ outcome \in PublishEvents \cup {"skipped"}
        /\ pc' = "iter_end" => pc = "decide" ]_vars

C14_Witness ==
    /\ pc = "iter_end" /\ i = 2 /\ waits = 2
    /\ trendCalls = 3 /\ genCalls = 3 /\ pubCalls = 3

\* C15: with every call returning and every wait elapsing, a run with count
\* N ends at Done after exactly N iterations; stated on the states where
\* the run has ended: the run is then at Done and N iterations were started
C15_RunEndsAtDone ==
    pc \in {"Done", "Crashed"}
        => /\ pc = "Done"
           /\ trendCalls = num_tweets /\ genCalls = num_tweets

\* an answer that gives no post: a failure, an error status, a malformed
\* body, or a well-formed body whose text is blank
AbsentAnswer(resp) ==
    \/ resp \in TransportFailures \cup ErrorStatusResponses
    \/ resp \in choice(MalformedBodies)
    \/ resp \in WellFormedResponses /\ Blank(FirstCandidateText(resp.data))

\* C16: nothing carries over from one iteration to the next: after a trends
\* call that fails or returns nothing the prompt has no keyword clause,
\* whatever keyword the iteration before had, and when the generation gives
\* no post nothing is published, whatever text the iteration before had
C16_NoCarryOver ==
    [][ /\ pc = "enrich" /\ trend_event' \in {"failed", "empty"}
           => IsNone(trending_keyword')
        /\ pc = "generate" /\ trend_event \in {"failed", "empty"}
           => \A k \in DOMAIN prompt' : prompt'[k].c # "keyword"
        /\ pc = "generate" /\ AbsentAnswer(response')
           => pc' = "Crashed" \/ ~IsGeneratedPost(tweet_content')
        /\ pc = "decide" /\ AbsentAnswer(response)
           => pubCalls' = pubCalls /\ IsNone(submitted') /\ outcome' = "skipped" ]_vars

C16_Witness ==
    /\ pc = "decide" /\ i = 1 /\ pubCalls = 1
    /\ response \in TransportFailures
    /\ IsNone(tweet_content) /\ IsNone(trending_keyword)
    /\ \A k \in DOMAIN prompt : prompt[k].c # "keyword"

\* C17: the text handed to post_tweet is non-empty and not whitespace-only,
\* and is the trimmed first-candidate text of the same iteration's answer,
\* unchanged
C17_SubmittedVerbatim ==
    [][ pubCalls' # pubCalls
          => /\ IsGeneratedPost(submitted')
             /\ submitted'.v = tweet_content.v
             /\ response.net = "ok" /\ response.isJson
             /\ LET text == FirstCandidateText(response.data)
                IN  text.t = "str" /\ submitted'.v = rstrip(lstrip(text.v)) ]_vars

C17_Witness ==
    /\ pc = "iter_end" /\ outcome = "created"
    /\ submitted.t = "str" /\ Len(submitted.v) = 2

====
